---- MODULE Spec2Model ----
(***************************************************************************)
(* Model of the recommender system: the sparse matrix, the train/test      *)
(* splitter, the Pearson top-k similarity map, predict / predict_impl and  *)
(* RMSE.                                                                   *)
(*                                                                         *)
(* Numbers.  A double is modelled as an exact fraction <<n, d>> (d > 0, in *)
(* lowest terms).  Sums, differences, products and std::clamp are exact.   *)
(* The two places where the program leaves the rationals are modelled as   *)
(* roundings: std::sqrt yields the whole number below the root, and the    *)
(* quotient that ends pearson() and the differences RMSE squares are kept  *)
(* to Precision ticks per unit.                                            *)
(* Ratings in the model are 0 or 100 and a row has at most three of them,   *)
(* so every deviation from an average that is not 0 is at least 100/3.     *)
(***************************************************************************)
EXTENDS Integers, Sequences, FiniteSets, TLC

\* ---------------------------------------------------------------- bounds
MaxLen == 3          \* entries of an unordered list given to the constructor
MaxTransposes == 2   \* transposes of one matrix
MaxTestCount == 2    \* make_train_test: test_count is 0..MaxTestCount
MaxSeed == 3         \* make_train_test: the value of rand() is 0..MaxSeed
MaxK == 2            \* get_top_k_similar_mat: k is 1..MaxK
MaxTrain == 6        \* entries of the train matrix when one query is predicted
MaxAttr == 2         \* attribute ids 1..MaxAttr
MaxQuery == 2        \* entries of the query matrix when several are predicted
MaxRmseLen == 2      \* entries of the matrices given to RMSE alone
Precision == 100     \* ticks per unit kept by the quotient of pearson()

\* ------------------------------------------------------- program constants
NOT_FOUND_VALUE == 0 - 1
MIN_SCORE == 0
MAX_SCORE == 100
TOP_K == 5000
FEAT_USE_ATTR == 1
FEAT_USE_WEIGHT == 2

VARIABLES
    pc,                 \* where the run is
    unordered_items,    \* the constructor's argument
    mat,                \* a SparseMatrix: [items |-> sequence, rows |-> set]
    lookup,             \* the last call of get: its row, its col, what it returned
    transposes,         \* how often the matrix has been transposed
    test_count,         \* make_train_test: ratings held out per user
    seed,               \* make_train_test: the value of rand() after srand(42)
    predict_k,          \* predict of core.hpp: k, the neighbour count
    predict_flags,      \* predict of core.hpp: flags, a sum of FEAT_ values
    user_mat,           \* the train matrix
    test_user_mat,      \* the test (query) matrix
    item_attr,          \* item -> attribute
    item_attr_rev,      \* attribute -> item
    global_avg_score,   \* cached global average
    user_avg_score,     \* cached average per user (std::map)
    item_avg_score,     \* cached average per item (std::map)
    similar_score_map,  \* row id -> vector of <<id, score>> (std::map)
    loop_k,             \* get_top_k_similar_mat: k, the list capacity
    loop_i,             \* get_top_k_similar_mat: i, the outer loop index (0-based)
    loop_j,             \* get_top_k_similar_mat: j, the inner loop index (0-based)
    loop_score,         \* get_top_k_similar_mat: score, the pearson score of the pair
    current_count,      \* predict: query entries answered
    stack,              \* predict_impl: call frames, innermost last
    result,             \* predict: std::vector<FpItem> result
    result_mat,         \* the matrix predict returns
    steps,              \* history: steps predict has taken
    rmse                \* the outcome of RMSE

matrixVars == <<unordered_items, mat, lookup, transposes>>
splitVars == <<test_count, seed>>
argVars == <<predict_k, predict_flags>>
dataVars == <<user_mat, test_user_mat, item_attr, item_attr_rev>>
cacheVars == <<global_avg_score, user_avg_score, item_avg_score, similar_score_map>>
topkVars == <<loop_k, loop_i, loop_j, loop_score>>
predictVars == <<current_count, stack, result, result_mat, steps>>

vars == <<pc, matrixVars, splitVars, argVars, dataVars, cacheVars, topkVars, predictVars, rmse>>

\* -------------------------------------------------------------- fractions
RECURSIVE GCD(_, _)
GCD(a, b) == IF b = 0 THEN a ELSE GCD(b, a % b)

Abs(x) == IF x < 0 THEN 0 - x ELSE x

Norm(n, d) ==
    LET g == GCD(Abs(n), Abs(d))
        s == IF d < 0 THEN 0 - 1 ELSE 1
    IN  <<(s * n) \div g, (s * d) \div g>>

R(k) == <<k, 1>>
RAdd(a, b) ==
    LET g == GCD(a[2], b[2])
    IN  Norm(a[1] * (b[2] \div g) + b[1] * (a[2] \div g), a[2] * (b[2] \div g))
RSub(a, b) == RAdd(a, <<0 - b[1], b[2]>>)
RMul(a, b) == Norm(a[1] * b[1], a[2] * b[2])
RDiv(a, b) == Norm(a[1] * b[2], a[2] * b[1])
RLess(a, b) == a[1] * b[2] < b[1] * a[2]
RLeq(a, b) == a[1] * b[2] <= b[1] * a[2]
RAbs(a) == <<Abs(a[1]), a[2]>>
square(x) == RMul(x, x)

NOT_FOUND == R(NOT_FOUND_VALUE)

\* ------------------------------------------------------------ SparseMatrix
Item(row, col, val) == [row |-> row, col |-> col, val |-> val]

\* Item::operator<
ItemLess(a, b) == a.row < b.row \/ (a.row = b.row /\ a.col < b.col)

\* One step of the sort: x goes behind every element that is not greater.
RECURSIVE InsertSorted(_, _)
InsertSorted(x, s) ==
    IF s = <<>> THEN <<x>>
    ELSE IF ItemLess(x, Head(s)) THEN <<x>> \o s
    ELSE <<Head(s)>> \o InsertSorted(x, Tail(s))

\* The constructor without its sort.
SortItemsSkipped(s) == s

\* std::sort(items.begin(), items.end())
RECURSIVE SortItems(_)
SortItems(s) ==
    IF s = <<>> THEN <<>>
    ELSE InsertSorted(s[Len(s)], SortItems(SubSeq(s, 1, Len(s) - 1)))

\* SparseMatrix(std::vector<Item> unordered_items)
SparseMatrix(items) ==
    [items |-> SortItems(items),
     rows  |-> {items[p].row : p \in 1..Len(items)}]

\* A transposition that writes the column into both ids.
swap_row_col_lost(items) ==
    [p \in 1..Len(items) |-> Item(items[p].col, items[p].col, items[p].val)]

\* The loop of transpose: transposed_items.push_back({item.col, item.row, item.val})
swap_row_col(items) ==
    [p \in 1..Len(items) |-> Item(items[p].col, items[p].row, items[p].val)]

\* SparseMatrix::transpose
transpose(m) == SparseMatrix(swap_row_col(m.items))

\* std::lower_bound / std::upper_bound on the (row, col) key, as 1-based
\* positions; both presuppose the sorted vector.
RECURSIVE LowerBound(_, _, _)
LowerBound(s, key, p) ==
    IF p > Len(s) THEN p
    ELSE IF ItemLess(s[p], key) THEN LowerBound(s, key, p + 1)
    ELSE p

\* std::lower_bound in the place of std::upper_bound.
UpperBoundAsLower(s, key, p) == LowerBound(s, key, p)

RECURSIVE UpperBound(_, _, _)
UpperBound(s, key, p) ==
    IF p > Len(s) THEN p
    ELSE IF ItemLess(key, s[p]) THEN p
    ELSE UpperBound(s, key, p + 1)

\* SparseMatrix::get
get(m, row, col) ==
    LET key == Item(row, col, R(0))
        lower == LowerBound(m.items, key, 1)
        upper == UpperBound(m.items, key, 1)
    IN  IF lower = upper THEN NOT_FOUND ELSE m.items[lower].val

\* SparseMatrix::get_row: the keys (row, 0) and (row, SIZE_MAX) bracket the row.
get_row(m, row) ==
    LET lower == LowerBound(m.items, Item(row, 0, R(0)), 1)
        upper == UpperBound(m.items, Item(row, 2147483647, R(0)), 1)
    IN  SubSeq(m.items, lower, upper - 1)

\* SparseMatrix::get_all
get_all(m) == m.items

\* SparseMatrix::row_indexes
row_indexes(m) == m.rows

\* The set as the ascending sequence a range-for over std::set visits.
RECURSIVE SetToSeq(_)
SetToSeq(S) ==
    IF S = {} THEN <<>>
    ELSE LET x == CHOOSE y \in S : \A z \in S : y <= z
         IN  <<x>> \o SetToSeq(S \ {x})

EmptyMatrix == [items |-> <<>>, rows |-> {}]

\* No call of get yet.
NoLookup == [row |-> 0, col |-> 0, val |-> NOT_FOUND]

\* ------------------------------------------------------ matrix specification
\* Every arrangement of a list: std::sort leaves entries of equal key in an
\* order it does not specify, which the sort of any arrangement covers.
Arrangements(s) ==
    {[p \in 1..Len(s) |-> s[f[p]]] :
        f \in {g \in [1..Len(s) -> 1..Len(s)] :
                 \A a, b \in 1..Len(s) : a # b => g[a] # g[b]}}

Ratings == {R(0), R(100)}

MatrixEntries == {Item(r, c, v) : r \in {1, 2}, c \in {1, 2}, v \in Ratings}

UnorderedLists == UNION {[1..n -> MatrixEntries] : n \in 0..MaxLen}

Idle ==
    /\ test_count = 0 /\ seed = 0
    /\ predict_k = 0 /\ predict_flags = 0
    /\ user_mat = EmptyMatrix /\ test_user_mat = EmptyMatrix
    /\ item_attr = EmptyMatrix /\ item_attr_rev = EmptyMatrix
    /\ global_avg_score = R(0)
    /\ user_avg_score = <<>> /\ item_avg_score = <<>> /\ similar_score_map = <<>>
    /\ loop_k = 0 /\ loop_i = 0 /\ loop_j = 0 /\ loop_score = R(0)
    /\ current_count = 0 /\ stack = <<>> /\ result = <<>> /\ result_mat = EmptyMatrix
    /\ steps = 0
    /\ rmse = [kind |-> "none"]

InitMatrix ==
    /\ pc = "construct"
    /\ unordered_items \in UnorderedLists
    /\ mat = EmptyMatrix
    /\ lookup = NoLookup /\ transposes = 0
    /\ Idle

\* SparseMatrix<T>::SparseMatrix
Construct ==
    /\ pc = "construct"
    /\ \E a \in Arrangements(unordered_items) : mat' = SparseMatrix(a)
    /\ pc' = "constructed"
    /\ UNCHANGED <<unordered_items, lookup, transposes, splitVars, argVars, dataVars,
                   cacheVars, topkVars, predictVars, rmse>>

\* SparseMatrix<T>::transpose, the result taking the place of the matrix
Transpose ==
    /\ pc \in {"constructed", "transposed", "looked_up"}
    /\ transposes < MaxTransposes
    /\ \E a \in Arrangements(swap_row_col(mat.items)) : mat' = SparseMatrix(a)
    /\ transposes' = transposes + 1
    /\ pc' = "transposed"
    /\ UNCHANGED <<unordered_items, lookup, splitVars, argVars, dataVars, cacheVars,
                   topkVars, predictVars, rmse>>

\* The ids get is called with: those of the entries and one that none has.
LookupIds == {1, 2, 3}

\* SparseMatrix<T>::get
Get ==
    /\ pc \in {"constructed", "transposed", "looked_up"}
    /\ \E row \in LookupIds, col \in LookupIds :
          lookup' = [row |-> row, col |-> col, val |-> get(mat, row, col)]
    /\ pc' = "looked_up"
    /\ UNCHANGED <<unordered_items, mat, transposes, splitVars, argVars, dataVars,
                   cacheVars, topkVars, predictVars, rmse>>

NextMatrix == Construct \/ Transpose \/ Get

SpecMatrix == InitMatrix /\ [][NextMatrix]_vars

\* C1: in every constructed matrix, also one that transpose returned, get_all()
\* is sorted ascending by (row, col), row_indexes() is exactly the set of rows
\* occurring in get_all(), and every id of row_indexes() has a non-empty row
\* made of the entries of that id.
SortedAndIndexed ==
    pc \in {"constructed", "transposed", "looked_up"} =>
        /\ \A p \in 1..(Len(get_all(mat)) - 1) :
              ~ItemLess(get_all(mat)[p + 1], get_all(mat)[p])
        /\ row_indexes(mat) = {get_all(mat)[p].row : p \in 1..Len(get_all(mat))}
        /\ \A r \in row_indexes(mat) :
              /\ get_row(mat, r) # <<>>
              /\ \A p \in 1..Len(get_row(mat, r)) : get_row(mat, r)[p].row = r

\* C1 witness: a matrix built from a list that was out of order, with two rows.
SortedAndIndexedWitness ==
    /\ pc = "constructed"
    /\ Len(unordered_items) = MaxLen
    /\ ItemLess(unordered_items[2], unordered_items[1])
    /\ Cardinality(row_indexes(mat)) = 2

\* The positions of the entries of the matrix with the key (row, col).
KeyPositions(m, row, col) ==
    {p \in 1..Len(get_all(m)) : get_all(m)[p].row = row /\ get_all(m)[p].col = col}

\* C13: get(row, col) returns the stored value when the key occurs exactly
\* once, and NOT_FOUND, which is negative and so none of the ratings in
\* [0, 100], when the key does not occur.
GetFindsStored ==
    pc = "looked_up" =>
        /\ Cardinality(KeyPositions(mat, lookup.row, lookup.col)) = 1 =>
              \A p \in KeyPositions(mat, lookup.row, lookup.col) :
                  lookup.val = get_all(mat)[p].val
        /\ KeyPositions(mat, lookup.row, lookup.col) = {} =>
              lookup.val = NOT_FOUND /\ RLess(lookup.val, R(MIN_SCORE))

\* C13 witness: get has returned the value of the second of three entries.
GetFindsStoredWitness ==
    /\ pc = "looked_up"
    /\ Len(get_all(mat)) = 3
    /\ KeyPositions(mat, lookup.row, lookup.col) = {2}
    /\ lookup.val = R(100)

\* How often the entry e occurs in the sequence s.
Occurrences(s, e) == Cardinality({p \in 1..Len(s) : s[p] = e})

\* The sequences s and t hold the same multiset of entries.
SameEntries(s, t) ==
    /\ Len(s) = Len(t)
    /\ \A p \in 1..Len(s) : Occurrences(s, s[p]) = Occurrences(t, s[p])

\* C14: the transpose of the transpose of a matrix M holds the same multiset
\* of (row, col, value) entries as M.
TransposeTwiceSameEntries ==
    transposes = 2 => SameEntries(get_all(mat), get_all(SparseMatrix(unordered_items)))

\* C14 witness: a matrix transposed twice that holds one key twice, with
\* two values, and an entry off the diagonal.
TransposeTwiceSameEntriesWitness ==
    /\ transposes = 2
    /\ Len(get_all(mat)) = 3
    /\ get_all(mat)[1].row = get_all(mat)[2].row
    /\ get_all(mat)[1].col = get_all(mat)[2].col
    /\ get_all(mat)[1].val # get_all(mat)[2].val
    /\ get_all(mat)[1].row # get_all(mat)[1].col

\* ------------------------------------------------------- make_train_test
\* The loop over i without the wrap-around test on next_i.
SplitRowNoWrap(row, tc, sd, to_test) ==
    LET size == Len(row)
        base == sd % size
        InTest(idx) == base <= idx /\ idx < base + tc
    IN  SelectSeq(row, LAMBDA x :
            \E p \in 1..size : row[p] = x /\ InTest(p - 1) = to_test)

\* The entries of one row that go to train (to_test = FALSE) or to test
\* (to_test = TRUE): the loop over i of make_train_test.
SplitRow(row, tc, sd, to_test) ==
    LET size == Len(row)
        base == sd % size
        InTest(idx) ==
            LET next_i == idx + size
            IN  \/ (base <= idx /\ idx < base + tc)
                \/ (base <= next_i /\ next_i < base + tc)
        RECURSIVE Walk(_)
        Walk(idx) ==
            IF idx >= size THEN <<>>
            ELSE (IF InTest(idx) = to_test THEN <<row[idx + 1]>> ELSE <<>>)
                 \o Walk(idx + 1)
    IN  Walk(0)

\* The loop over mat.row_indexes() of make_train_test, rows in ascending order.
RECURSIVE SplitRows(_, _, _, _, _)
SplitRows(m, row_ids, tc, sd, to_test) ==
    IF row_ids = <<>> THEN <<>>
    ELSE LET row == get_row(m, Head(row_ids))
         IN  (IF Len(row) <= tc THEN <<>> ELSE SplitRow(row, tc, sd, to_test))
             \o SplitRows(m, Tail(row_ids), tc, sd, to_test)

\* make_train_test: <<train, test>>
make_train_test(m, tc, sd) ==
    <<SparseMatrix(SplitRows(m, SetToSeq(row_indexes(m)), tc, sd, FALSE)),
      SparseMatrix(SplitRows(m, SetToSeq(row_indexes(m)), tc, sd, TRUE))>>

\* make_train_test of core.cpp: the last test_count entries of a row are its
\* test entries.
RECURSIVE SplitRowsCore(_, _, _, _)
SplitRowsCore(m, row_ids, tc, to_test) ==
    IF row_ids = <<>> THEN <<>>
    ELSE LET row == get_row(m, Head(row_ids))
         IN  (IF Len(row) <= tc THEN <<>>
              ELSE IF to_test THEN SubSeq(row, Len(row) - tc + 1, Len(row))
              ELSE SubSeq(row, 1, Len(row) - tc))
             \o SplitRowsCore(m, Tail(row_ids), tc, to_test)

make_train_test_core(m, tc) ==
    <<SparseMatrix(SplitRowsCore(m, SetToSeq(row_indexes(m)), tc, FALSE)),
      SparseMatrix(SplitRowsCore(m, SetToSeq(row_indexes(m)), tc, TRUE))>>

\* The matrices with at most one entry per key over the given keys.
Keys(rows, cols) == rows \X cols

RECURSIVE KeySeq(_)
KeySeq(S) ==
    IF S = {} THEN <<>>
    ELSE LET x == CHOOSE y \in S : \A z \in S :
                      y = z \/ y[1] < z[1] \/ (y[1] = z[1] /\ y[2] < z[2])
         IN  <<x>> \o KeySeq(S \ {x})

MatrixOf(f) ==
    LET ks == KeySeq(DOMAIN f)
    IN  SparseMatrix([p \in 1..Len(ks) |-> Item(ks[p][1], ks[p][2], f[ks[p]])])

Matrices(keys, values, max) ==
    {MatrixOf(f) : f \in UNION {[S -> values] :
                        S \in {T \in SUBSET keys : Cardinality(T) <= max}}}

\* The full ratings of four users for three items; a matrix of ratings holds
\* some of them.
AllRatings ==
    <<<<0, 100, 100>>,
      <<0, 100, 0>>,
      <<100, 0, 0>>,
      <<100, 0, 100>>>>

AllUsers == 1..Len(AllRatings)
AllItems == 1..Len(AllRatings[1])

\* The matrices holding between min and max of the ratings of the given users.
RatingMatrices(users, min, max) ==
    {MatrixOf([key \in S |-> R(AllRatings[key[1]][key[2]])]) :
        S \in {T \in SUBSET Keys(users, AllItems) :
                 Cardinality(T) >= min /\ Cardinality(T) <= max}}

InitSplit ==
    /\ pc = "split"
    /\ mat \in RatingMatrices(AllUsers, 0, Cardinality(Keys(AllUsers, AllItems)))
    /\ unordered_items = <<>>
    /\ lookup = NoLookup /\ transposes = 0
    /\ test_count \in 0..MaxTestCount
    /\ seed \in 0..MaxSeed
    /\ predict_k = 0 /\ predict_flags = 0
    /\ user_mat = EmptyMatrix /\ test_user_mat = EmptyMatrix
    /\ item_attr = EmptyMatrix /\ item_attr_rev = EmptyMatrix
    /\ global_avg_score = R(0)
    /\ user_avg_score = <<>> /\ item_avg_score = <<>> /\ similar_score_map = <<>>
    /\ loop_k = 0 /\ loop_i = 0 /\ loop_j = 0 /\ loop_score = R(0)
    /\ current_count = 0 /\ stack = <<>> /\ result = <<>> /\ result_mat = EmptyMatrix
    /\ steps = 0
    /\ rmse = [kind |-> "none"]

\* auto [train_dataset, test_dataset] = make_train_test(all_dataset, test_count)
MakeTrainTest ==
    /\ pc = "split"
    /\ user_mat' = make_train_test(mat, test_count, seed)[1]
    /\ test_user_mat' = make_train_test(mat, test_count, seed)[2]
    /\ pc' = "split_done"
    /\ UNCHANGED <<matrixVars, splitVars, argVars, item_attr, item_attr_rev, cacheVars,
                   topkVars, predictVars, rmse>>

\* The same call in the build that links make_train_test of core.cpp.
MakeTrainTestCore ==
    /\ pc = "split"
    /\ user_mat' = make_train_test_core(mat, test_count)[1]
    /\ test_user_mat' = make_train_test_core(mat, test_count)[2]
    /\ pc' = "split_done"
    /\ UNCHANGED <<matrixVars, splitVars, argVars, item_attr, item_attr_rev, cacheVars,
                   topkVars, predictVars, rmse>>

NextSplit == MakeTrainTest \/ MakeTrainTestCore

SpecSplit == InitSplit /\ [][NextSplit]_vars

\* C4: after the split, every user with at most test_count ratings has all its
\* ratings in train and none in test.
SmallUsersStayInTrain ==
    pc = "split_done" =>
        \A u \in row_indexes(mat) :
            Len(get_row(mat, u)) <= test_count =>
                /\ get_row(user_mat, u) = get_row(mat, u)
                /\ get_row(test_user_mat, u) = <<>>

RECURSIVE SumVal(_)
SumVal(s) == IF s = <<>> THEN R(0) ELSE RAdd(Head(s).val, SumVal(Tail(s)))

\* The value of 0.0 / 0: not a number.
NaN == <<0, 0>>

\* sum / count of the two averages
Mean(sum, count) == IF count = 0 THEN NaN ELSE RDiv(sum, R(count))

\* get_avg_score_by_row
get_avg_score_by_row(m) ==
    [r \in row_indexes(m) |-> Mean(SumVal(get_row(m, r)), Len(get_row(m, r)))]

\* get_global_avg_score
get_global_avg_score(m) == Mean(SumVal(get_all(m)), Len(get_all(m)))

\* ---------------------------------------------------------------- pearson
\* The whole number below the square root of n.
RECURSIVE ISqrtBetween(_, _, _)
ISqrtBetween(n, lo, hi) ==
    IF lo >= hi THEN lo
    ELSE LET mid == (lo + hi + 1) \div 2
         IN  IF mid * mid <= n THEN ISqrtBetween(n, mid, hi)
             ELSE ISqrtBetween(n, lo, mid - 1)

ISqrt(n) == ISqrtBetween(n, 0, IF n < 46340 THEN n ELSE 46340)

\* std::sqrt
Sqrt(x) == R(ISqrt(x[1] \div x[2]))

\* std::numeric_limits<double>::epsilon(): below every positive quantity the
\* program compares with it (in the model: a sum of scores is a multiple of
\* 1/Precision, a sum of weights is at least 1/3, a root is whole).
Epsilon == <<1, 100000>>

\* A double kept to Precision ticks per unit (rounded toward zero).
Round(x) ==
    LET t == (Abs(x[1]) * Precision) \div x[2]
    IN  Norm(IF x[1] < 0 THEN 0 - t ELSE t, Precision)

\* The quotient numerator / denominator that ends pearson(), rounded.
Quotient(a, b) == Round(RDiv(a, b))

\* The sweep without the two loops that drain the rest of a row.
PearsonSumsUndrained(row_x, row_y, avg_x, avg_y) ==
    LET RECURSIVE Sweep(_, _, _, _, _)
        Sweep(a, b, numerator, dx, dy) ==
            IF a <= Len(row_x) /\ b <= Len(row_y) THEN
                IF row_x[a].col < row_y[b].col THEN
                    Sweep(a + 1, b, numerator,
                          RAdd(dx, square(RSub(row_x[a].val, avg_x))), dy)
                ELSE IF row_x[a].col > row_y[b].col THEN
                    Sweep(a, b + 1, numerator,
                          dx, RAdd(dy, square(RSub(row_y[b].val, avg_y))))
                ELSE
                    Sweep(a + 1, b + 1,
                          RAdd(numerator, RMul(RSub(row_x[a].val, avg_x),
                                               RSub(row_y[b].val, avg_y))),
                          RAdd(dx, square(RSub(row_x[a].val, avg_x))),
                          RAdd(dy, square(RSub(row_y[b].val, avg_y))))
            ELSE <<numerator, dx, dy>>
    IN  Sweep(1, 1, R(0), R(0), R(0))

\* The two-pointer sweep of pearson(): <<numerator, denominator_x,
\* denominator_y>> when both pointers have reached the end of their rows.
PearsonSums(row_x, row_y, avg_x, avg_y) ==
    LET RECURSIVE Sweep(_, _, _, _, _)
        Sweep(a, b, numerator, dx, dy) ==
            IF a <= Len(row_x) /\ b <= Len(row_y) THEN
                IF row_x[a].col < row_y[b].col THEN
                    Sweep(a + 1, b, numerator,
                          RAdd(dx, square(RSub(row_x[a].val, avg_x))), dy)
                ELSE IF row_x[a].col > row_y[b].col THEN
                    Sweep(a, b + 1, numerator,
                          dx, RAdd(dy, square(RSub(row_y[b].val, avg_y))))
                ELSE
                    Sweep(a + 1, b + 1,
                          RAdd(numerator, RMul(RSub(row_x[a].val, avg_x),
                                               RSub(row_y[b].val, avg_y))),
                          RAdd(dx, square(RSub(row_x[a].val, avg_x))),
                          RAdd(dy, square(RSub(row_y[b].val, avg_y))))
            ELSE IF a <= Len(row_x) THEN
                Sweep(a + 1, b, numerator,
                      RAdd(dx, square(RSub(row_x[a].val, avg_x))), dy)
            ELSE IF b <= Len(row_y) THEN
                Sweep(a, b + 1, numerator,
                      dx, RAdd(dy, square(RSub(row_y[b].val, avg_y))))
            ELSE <<numerator, dx, dy>>
    IN  Sweep(1, 1, R(0), R(0), R(0))

\* pearson with the first row's denominator in the place of the second's.
pearson_first_row(m, x, y, avg_score) ==
    LET sums == PearsonSums(get_row(m, x), get_row(m, y), avg_score[x], avg_score[y])
        denominator == Sqrt(RMul(sums[2], sums[2]))
    IN  IF RLess(RAbs(denominator), Epsilon) THEN R(0)
        ELSE Quotient(sums[1], denominator)

\* pearson
pearson(m, x, y, avg_score) ==
    LET sums == PearsonSums(get_row(m, x), get_row(m, y), avg_score[x], avg_score[y])
        denominator == Sqrt(RMul(sums[2], sums[3]))
    IN  IF RLess(RAbs(denominator), Epsilon) THEN R(0)
        ELSE Quotient(sums[1], denominator)

\* ------------------------------------------------------------------ top k
\* heap_compare on pairs <<id, score>>
heap_compare(a, b) == RLess(b[2], a[2])

\* std::__push_heap: the value climbs from the hole while its parent compares
\* less; positions are 0-based as in the library, s[p + 1] is position p.
RECURSIVE PushHeapFrom(_, _, _, _)
PushHeapFrom(s, hole, top, value) ==
    LET parent == (hole - 1) \div 2
    IN  IF hole > top /\ heap_compare(s[parent + 1], value)
        THEN PushHeapFrom([s EXCEPT ![hole + 1] = s[parent + 1]], parent, top, value)
        ELSE [s EXCEPT ![hole + 1] = value]

\* std::push_heap
push_heap(s) == IF Len(s) <= 1 THEN s ELSE PushHeapFrom(s, Len(s) - 1, 0, s[Len(s)])

\* std::__adjust_heap on the first len positions: the hole sinks to a leaf
\* along the children that do not compare less, then the value climbs.
RECURSIVE SinkHole(_, _, _)
SinkHole(s, hole, len) ==
    IF hole < (len - 1) \div 2 THEN
        LET right == 2 * (hole + 1)
            child == IF heap_compare(s[right + 1], s[right]) THEN right - 1 ELSE right
        IN  SinkHole([s EXCEPT ![hole + 1] = s[child + 1]], child, len)
    ELSE IF len % 2 = 0 /\ hole = (len - 2) \div 2 THEN
        <<[s EXCEPT ![hole + 1] = s[2 * (hole + 1)]], 2 * (hole + 1) - 1>>
    ELSE <<s, hole>>

AdjustHeap(s, len, value) ==
    LET sunk == SinkHole(s, 0, len)
    IN  PushHeapFrom(sunk[1], sunk[2], 0, value)

\* std::pop_heap on the first n positions: the first element goes to position
\* n - 1, the others stay a heap.
PopHeapN(s, n) ==
    IF n <= 1 THEN s
    ELSE AdjustHeap([s EXCEPT ![n] = s[1]], n - 1, s[n])

\* std::pop_heap
pop_heap(s) == PopHeapN(s, Len(s))

\* std::sort_heap
RECURSIVE SortHeapN(_, _)
SortHeapN(s, n) == IF n <= 1 THEN s ELSE SortHeapN(PopHeapN(s, n), n - 1)

sort_heap(s) == SortHeapN(s, Len(s))

\* std::reverse
reverse(s) == [p \in 1..Len(s) |-> s[Len(s) + 1 - p]]

\* update_top_k_score without the capacity test.
update_top_k_score_unbounded(top_k, kk, id, sc) ==
    push_heap(Append(top_k, <<id, sc>>))

\* update_top_k_score that leaves a full list as it is.
update_top_k_score_first_come(top_k, kk, id, sc) ==
    IF Len(top_k) < kk THEN push_heap(Append(top_k, <<id, sc>>)) ELSE top_k

\* update_top_k_score
update_top_k_score(top_k, kk, id, sc) ==
    IF Len(top_k) < kk THEN push_heap(Append(top_k, <<id, sc>>))
    ELSE IF RLess(top_k[1][2], sc)
    THEN LET popped == pop_heap(top_k)
         IN  push_heap([popped EXCEPT ![Len(popped)] = <<id, sc>>])
    ELSE top_k

\* The last loop of get_top_k_similar_mat, for one row.
FinishHeap(heap) == reverse(sort_heap(heap))

\* The pair loop of get_top_k_similar_mat from pair (a, b) on (0-based
\* positions in row_ids).
RECURSIVE PairLoop(_, _, _, _, _, _, _)
PairLoop(res, m, row_ids, kk, avg_score, a, b) ==
    IF a >= Len(row_ids) THEN res
    ELSE IF b >= Len(row_ids)
    THEN PairLoop(res, m, row_ids, kk, avg_score, a + 1, a + 2)
    ELSE LET x == row_ids[a + 1]
             y == row_ids[b + 1]
             sc == pearson(m, x, y, avg_score)
             res_x == [res EXCEPT ![x] = update_top_k_score(res[x], kk, y, sc)]
             res_y == [res_x EXCEPT ![y] = update_top_k_score(res_x[y], kk, x, sc)]
         IN  PairLoop(res_y, m, row_ids, kk, avg_score, a, b + 1)

\* get_top_k_similar_mat
get_top_k_similar_mat(m, kk, avg_score) ==
    LET row_ids == SetToSeq(row_indexes(m))
        empty == [r \in row_indexes(m) |-> <<>>]
        heaps == PairLoop(empty, m, row_ids, kk, avg_score, 0, 1)
    IN  [r \in row_indexes(m) |-> FinishHeap(heaps[r])]

\* ------------------------------------------------- similarity specification
\* The loop position after ++j: the next pair (a, b) with b < n, or a = n.
RECURSIVE NextPair(_, _, _)
NextPair(a, b, n) ==
    IF a >= n \/ b < n THEN <<a, b>> ELSE NextPair(a + 1, a + 2, n)

row_ids == SetToSeq(row_indexes(user_mat))

InitTopK ==
    /\ pc = "topk_start"
    /\ user_mat \in RatingMatrices(AllUsers, 0, Cardinality(Keys(AllUsers, AllItems)))
    /\ user_avg_score = get_avg_score_by_row(user_mat)
    /\ loop_k \in 1..MaxK
    /\ unordered_items = <<>> /\ mat = EmptyMatrix
    /\ lookup = NoLookup /\ transposes = 0
    /\ test_count = 0 /\ seed = 0
    /\ predict_k = 0 /\ predict_flags = 0
    /\ test_user_mat = EmptyMatrix
    /\ item_attr = EmptyMatrix /\ item_attr_rev = EmptyMatrix
    /\ global_avg_score = R(0)
    /\ item_avg_score = <<>> /\ similar_score_map = <<>>
    /\ loop_i = 0 /\ loop_j = 0 /\ loop_score = R(0)
    /\ current_count = 0 /\ stack = <<>> /\ result = <<>> /\ result_mat = EmptyMatrix
    /\ steps = 0
    /\ rmse = [kind |-> "none"]

\* get_top_k_similar_mat up to the pair loop: an empty vector per row
TopKStart ==
    /\ pc = "topk_start"
    /\ similar_score_map' = [r \in row_indexes(user_mat) |-> <<>>]
    /\ loop_i' = NextPair(0, 1, Len(row_ids))[1]
    /\ loop_j' = NextPair(0, 1, Len(row_ids))[2]
    /\ pc' = IF NextPair(0, 1, Len(row_ids))[1] >= Len(row_ids)
             THEN "topk_sort" ELSE "topk_x"
    /\ UNCHANGED <<matrixVars, splitVars, argVars, dataVars, global_avg_score, user_avg_score,
                   item_avg_score, loop_k, loop_score, predictVars, rmse>>

\* score = pearson(mat, x, y, avg_score); update_top_k_score(result_x, k, y, score)
TopKUpdateX ==
    /\ pc = "topk_x"
    /\ LET x == row_ids[loop_i + 1]
           y == row_ids[loop_j + 1]
           sc == pearson(user_mat, x, y, user_avg_score)
       IN  /\ loop_score' = sc
           /\ similar_score_map' =
                [similar_score_map EXCEPT
                    ![x] = update_top_k_score(similar_score_map[x], loop_k, y, sc)]
    /\ pc' = "topk_y"
    /\ UNCHANGED <<matrixVars, splitVars, argVars, dataVars, global_avg_score, user_avg_score,
                   item_avg_score, loop_k, loop_i, loop_j, predictVars, rmse>>

\* update_top_k_score(result_y, k, x, score); ++j
TopKUpdateY ==
    /\ pc = "topk_y"
    /\ LET x == row_ids[loop_i + 1]
           y == row_ids[loop_j + 1]
       IN  similar_score_map' =
                [similar_score_map EXCEPT
                    ![y] = update_top_k_score(similar_score_map[y], loop_k, x, loop_score)]
    /\ loop_i' = NextPair(loop_i, loop_j + 1, Len(row_ids))[1]
    /\ loop_j' = NextPair(loop_i, loop_j + 1, Len(row_ids))[2]
    /\ pc' = IF NextPair(loop_i, loop_j + 1, Len(row_ids))[1] >= Len(row_ids)
             THEN "topk_sort" ELSE "topk_x"
    /\ UNCHANGED <<matrixVars, splitVars, argVars, dataVars, global_avg_score, user_avg_score,
                   item_avg_score, loop_k, loop_score, predictVars, rmse>>

\* std::sort_heap and std::reverse on every row's heap; return result
TopKSort ==
    /\ pc = "topk_sort"
    /\ similar_score_map' =
            [r \in DOMAIN similar_score_map |-> FinishHeap(similar_score_map[r])]
    /\ pc' = "topk_done"
    /\ UNCHANGED <<matrixVars, splitVars, argVars, dataVars, global_avg_score, user_avg_score,
                   item_avg_score, topkVars, predictVars, rmse>>

NextTopK == TopKStart \/ TopKUpdateX \/ TopKUpdateY \/ TopKSort

SpecTopK == InitTopK /\ [][NextTopK]_vars

\* C2: after every call of update_top_k_score and in the returned map, every
\* row's candidate list has at most k entries.
ListsWithinK ==
    pc \in {"topk_x", "topk_y", "topk_sort", "topk_done"} =>
        \A r \in DOMAIN similar_score_map : Len(similar_score_map[r]) <= loop_k

\* C2 witness: with k = 1 a row's list is full and holds a candidate that
\* replaced the first one offered to it.
ListsWithinKWitness ==
    /\ pc = "topk_done"
    /\ loop_k = 1
    /\ \E r \in DOMAIN similar_score_map :
          /\ Len(similar_score_map[r]) = 1
          /\ similar_score_map[r][1][1] # Head(SetToSeq(row_indexes(user_mat) \ {r}))

\* C3: in the returned map every row's list is sorted descending by
\* similarity.
ListsDescending ==
    pc = "topk_done" =>
        \A r \in DOMAIN similar_score_map :
            \A p \in 1..(Len(similar_score_map[r]) - 1) :
                RLeq(similar_score_map[r][p + 1][2], similar_score_map[r][p][2])

\* The scores a row's candidate list holds for the row id.
ScoresFor(list, id) == {list[p][2] : p \in {q \in 1..Len(list) : list[q][1] = id}}

\* C15: pearson(x, y) equals pearson(y, x) for every two rows of the matrix;
\* the score offered to y's list for x is the one computed for x's list, and
\* whatever a list of x holds for y is the score of the pair in both orders.
PearsonSymmetric ==
    pc \in {"topk_x", "topk_y", "topk_sort", "topk_done"} =>
        /\ pc = "topk_sort" =>
              \A x, y \in row_indexes(user_mat) :
                  pearson(user_mat, x, y, user_avg_score)
                      = pearson(user_mat, y, x, user_avg_score)
        /\ pc = "topk_y" =>
              loop_score = pearson(user_mat, row_ids[loop_j + 1], row_ids[loop_i + 1],
                                   user_avg_score)
        /\ \A x \in DOMAIN similar_score_map, y \in row_indexes(user_mat) :
              \A sc \in ScoresFor(similar_score_map[x], y) :
                  /\ sc = pearson(user_mat, y, x, user_avg_score)
                  /\ \A back \in ScoresFor(similar_score_map[y], x) : back = sc

\* C15 witness: the returned lists of two rows of different lengths hold each
\* other with a score that is neither 0 nor 1 nor -1.
PearsonSymmetricWitness ==
    /\ pc = "topk_done"
    /\ \E x, y \in DOMAIN similar_score_map :
          /\ Len(get_row(user_mat, x)) < Len(get_row(user_mat, y))
          /\ \E sc \in ScoresFor(similar_score_map[x], y) :
                /\ sc \in ScoresFor(similar_score_map[y], x)
                /\ sc \notin {R(0), R(1), R(0 - 1)}

\* min(K, n - 1) for a matrix of n rows, and none for a matrix without rows.
ListLength(kk, n) == IF n = 0 THEN 0 ELSE IF kk < n - 1 THEN kk ELSE n - 1

\* The ids a candidate list holds.
ListIds(list) == {list[p][1] : p \in 1..Len(list)}

\* C16: when all pairs of rows are processed, every row's list holds exactly
\* min(K, n - 1) entries, for different rows other than the row itself, each
\* with its score against the row, and no row left out scores higher than
\* one that is held (so with K >= n - 1 every other row is held).
ListsHoldLargest ==
    pc \in {"topk_sort", "topk_done"} =>
        \A r \in row_indexes(user_mat) :
            LET list == similar_score_map[r]
                others == row_indexes(user_mat) \ {r}
            IN  /\ Len(list) = ListLength(loop_k, Cardinality(row_indexes(user_mat)))
                /\ Cardinality(ListIds(list)) = Len(list)
                /\ ListIds(list) \subseteq others
                /\ \A p \in 1..Len(list) :
                      list[p][2] = pearson(user_mat, r, list[p][1], user_avg_score)
                /\ \A out \in others \ ListIds(list) : \A p \in 1..Len(list) :
                      RLeq(pearson(user_mat, r, out, user_avg_score), list[p][2])

\* C16 witness: with four rows and K = 2 a returned list leaves out a row
\* that was offered before one it holds and scores lower than both it holds.
ListsHoldLargestWitness ==
    /\ pc = "topk_done"
    /\ loop_k = 2
    /\ Cardinality(row_indexes(user_mat)) = 4
    /\ \E r \in row_indexes(user_mat) :
          \E out \in (row_indexes(user_mat) \ {r}) \ ListIds(similar_score_map[r]) :
              /\ \E id \in ListIds(similar_score_map[r]) : out < id
              /\ \A p \in 1..Len(similar_score_map[r]) :
                    RLess(pearson(user_mat, r, out, user_avg_score),
                          similar_score_map[r][p][2])

\* The sum of the squared deviations of the entries p.. of a row.
RECURSIVE SquaredDeviations(_, _, _)
SquaredDeviations(row, avg, p) ==
    IF p > Len(row) THEN R(0)
    ELSE RAdd(square(RSub(row[p].val, avg)), SquaredDeviations(row, avg, p + 1))

\* The positions of a row that hold the column.
AtColumn(row, col) == {p \in 1..Len(row) : row[p].col = col}

\* The sum, over the columns col.. that both rows hold, of the products of
\* the two deviations.
RECURSIVE SharedProducts(_, _, _, _, _)
SharedProducts(row_x, row_y, avg_x, avg_y, col) ==
    IF col > Cardinality(AllItems) THEN R(0)
    ELSE LET rest == SharedProducts(row_x, row_y, avg_x, avg_y, col + 1)
         IN  IF AtColumn(row_x, col) = {} \/ AtColumn(row_y, col) = {} THEN rest
             ELSE RAdd(RMul(RSub(row_x[CHOOSE p \in AtColumn(row_x, col) : TRUE].val, avg_x),
                            RSub(row_y[CHOOSE p \in AtColumn(row_y, col) : TRUE].val, avg_y)),
                       rest)

\* C17: for the pair of rows just swept, the numerator is the sum of the
\* products of deviations over exactly the columns both rows hold, each
\* denominator is the sum of the squared deviations of every entry of its
\* row, and the score is 0 when the root of the denominators' product is
\* below epsilon and numerator / root otherwise.
SweepSums ==
    pc = "topk_y" =>
        LET x == row_ids[loop_i + 1]
            y == row_ids[loop_j + 1]
            row_x == get_row(user_mat, x)
            row_y == get_row(user_mat, y)
            numerator == SharedProducts(row_x, row_y, user_avg_score[x], user_avg_score[y], 1)
            denominator_x == SquaredDeviations(row_x, user_avg_score[x], 1)
            denominator_y == SquaredDeviations(row_y, user_avg_score[y], 1)
            root == Sqrt(RMul(denominator_x, denominator_y))
        IN  /\ PearsonSums(row_x, row_y, user_avg_score[x], user_avg_score[y])
                  = <<numerator, denominator_x, denominator_y>>
            /\ RLess(root, Epsilon) => loop_score = R(0)
            /\ ~RLess(root, Epsilon) => loop_score = Quotient(numerator, root)

\* C17 witness: a swept pair of rows that share a column and hold one
\* column each that the other lacks, the second row's in its tail, with a
\* score other than 0.
SweepSumsWitness ==
    /\ pc = "topk_y"
    /\ loop_score # R(0)
    /\ LET row_x == get_row(user_mat, row_ids[loop_i + 1])
           row_y == get_row(user_mat, row_ids[loop_j + 1])
       IN  /\ Len(row_x) = 2 /\ Len(row_y) = 2
           /\ row_x[2].col = row_y[1].col
           /\ row_x[1].col < row_y[1].col

\* ---------------------------------------------------------- predict_impl
\* std::map::operator[]: a key that is absent is inserted with the default.
Touch(map, key, default) ==
    IF key \in DOMAIN map THEN map ELSE map @@ (key :> default)

\* The score left as it is.
clamp_skipped(x) == x

\* std::clamp(score, 0.0, 100.0)
clamp(x) ==
    IF RLess(x, R(MIN_SCORE)) THEN R(MIN_SCORE)
    ELSE IF RLess(R(MAX_SCORE), x) THEN R(MAX_SCORE)
    ELSE x

\* get_similar_items: an array of two spans, the spans beyond the item's
\* attributes left empty.  An item has at most two attributes.
get_similar_items(item_id, attr, attr_rev) ==
    LET attrs == get_row(attr, item_id)
    IN  [g \in 1..2 |-> IF g <= Len(attrs) THEN get_row(attr_rev, attrs[g].col)
                        ELSE <<>>]

\* The siblings of a span with the item counted into the weight.
GroupSiblingsItemCounted(items, item_id) ==
    IF Len(items) <= 1 THEN <<>>
    ELSE LET attr_weight == <<1, Len(items)>>
             kept == SelectSeq(items, LAMBDA entry : entry.col # item_id)
         IN  [p \in 1..Len(kept) |-> <<attr_weight, kept[p].col>>]

\* The siblings one span contributes, as pairs <<attr_weight, similar_item_id>>.
\* similar_item_count = items.size() - 1 is unsigned: for the empty span it
\* wraps around to SIZE_MAX, the span is not skipped and its loop body never
\* runs; for a span of one entry it is 0 and the span is skipped.
GroupSiblings(items, item_id) ==
    IF Len(items) <= 1 THEN <<>>
    ELSE LET attr_weight == <<1, Len(items) - 1>>
             kept == SelectSeq(items, LAMBDA entry : entry.col # item_id)
         IN  [p \in 1..Len(kept) |-> <<attr_weight, kept[p].col>>]

\* The siblings with the weight 1 each.
Unweighted(siblings) == [p \in 1..Len(siblings) |-> <<R(1), siblings[p][2]>>]

\* The siblings in the order the two nested loops of predict_impl visit them.
SiblingList(item_id, attr, attr_rev) ==
    GroupSiblings(get_similar_items(item_id, attr, attr_rev)[1], item_id)
    \o GroupSiblings(get_similar_items(item_id, attr, attr_rev)[2], item_id)

\* The base score without the bias of the item.
base_score_no_item(global_avg, bias_user, bias_item) == RAdd(global_avg, bias_user)

\* global_avg_score + bias_user + bias_item
base_score(global_avg, bias_user, bias_item) ==
    RAdd(RAdd(global_avg, bias_user), bias_item)

\* The loop over similar_score_map[user_id]: <<numerator, denominator, count,
\* user_avg_score>> after the neighbours from position p on.
RECURSIVE NeighbourLoop(_, _, _, _, _, _, _, _, _)
NeighbourLoop(list, p, item_id, bias_item, global_avg, avg, numerator, denominator, count) ==
    IF p > Len(list) THEN <<numerator, denominator, count, avg>>
    ELSE LET similar_user == list[p][1]
             similarity == list[p][2]
             similar_user_score == get(user_mat, similar_user, item_id)
         IN  IF RLess(similar_user_score, R(0))
             THEN NeighbourLoop(list, p + 1, item_id, bias_item, global_avg, avg,
                                numerator, denominator, count)
             ELSE LET avg1 == Touch(avg, similar_user, R(0))
                      bias_similar_user == RSub(avg1[similar_user], global_avg)
                      similar_score_base ==
                          base_score(global_avg, bias_similar_user, bias_item)
                  IN  NeighbourLoop(list, p + 1, item_id, bias_item, global_avg, avg1,
                          RAdd(numerator,
                               RMul(similarity, RSub(similar_user_score, similar_score_base))),
                          RAdd(denominator, RAbs(similarity)),
                          count + 1)

\* The decision with one rating of a neighbour counting as enough.
similar_users_not_enough_one(denominator, count) ==
    RLess(denominator, Epsilon) \/ count < 1

\* denominator < epsilon || count <= 1: similar users not enough
similar_users_not_enough(denominator, count) ==
    RLess(denominator, Epsilon) \/ count <= 1

\* The argument consider_similar_items of the recursive call.
RecursiveConsiderTrue == TRUE

RecursiveConsider == FALSE

Frame(user_id, item_id, consider_similar_items) ==
    [user_id |-> user_id, item_id |-> item_id,
     consider_similar_items |-> consider_similar_items,
     at |-> "enter", score_base |-> R(0), siblings |-> <<>>, pos |-> 1,
     nominator |-> R(0), denominator |-> R(0), score |-> R(0)]

Top == stack[Len(stack)]
Pop == SubSeq(stack, 1, Len(stack) - 1)
SetTop(f) == [stack EXCEPT ![Len(stack)] = f]

\* The entries of the query matrix in the order of the two loops of predict.
RECURSIVE RowsInOrder(_, _)
RowsInOrder(m, ids) ==
    IF ids = <<>> THEN <<>> ELSE get_row(m, Head(ids)) \o RowsInOrder(m, Tail(ids))

QueryOrder == RowsInOrder(test_user_mat, SetToSeq(row_indexes(test_user_mat)))

\* predict up to its loop: the averages, the reverse attribute matrix and the
\* neighbour map
PredictStartWith(kk) ==
    /\ pc = "predict_start"
    /\ steps' = steps + 1
    /\ global_avg_score' = get_global_avg_score(user_mat)
    /\ user_avg_score' = get_avg_score_by_row(user_mat)
    /\ item_avg_score' = get_avg_score_by_row(transpose(user_mat))
    /\ item_attr_rev' = transpose(item_attr)
    /\ similar_score_map' =
            get_top_k_similar_mat(user_mat, kk, get_avg_score_by_row(user_mat))
    /\ result' = <<>>
    /\ current_count' = 0
    /\ pc' = "predict_loop"
    /\ UNCHANGED <<matrixVars, splitVars, argVars, user_mat, test_user_mat, item_attr,
                   topkVars, stack, result_mat, rmse>>

\* predict of src/main.cpp: get_top_k_similar_mat(user_mat, 5000, ...)
PredictStart == PredictStartWith(TOP_K)

\* The call predict_impl(test_user_id, item_id, ..., true) for the next entry
PredictCall ==
    /\ pc = "predict_loop"
    /\ steps' = steps + 1
    /\ stack = <<>>
    /\ current_count < Len(QueryOrder)
    /\ stack' = <<Frame(QueryOrder[current_count + 1].row,
                        QueryOrder[current_count + 1].col, TRUE)>>
    /\ UNCHANGED <<pc, matrixVars, splitVars, argVars, dataVars, cacheVars, topkVars,
                   current_count, result, result_mat, rmse>>

\* predict_impl from its entry to the decision on the neighbour evidence.
\* attr_enabled and weighted are what the flags of predict select: without
\* the attributes the fallback is the base score, without the weights every
\* sibling weighs 1.
ImplEnterWith(attr_enabled, weighted) ==
    /\ pc = "predict_loop"
    /\ steps' = steps + 1
    /\ stack # <<>>
    /\ Top.at = "enter"
    /\ LET user_id == Top.user_id
           item_id == Top.item_id
           ua == Touch(user_avg_score, user_id, R(0))
           ia == Touch(item_avg_score, item_id, R(0))
           sm == Touch(similar_score_map, user_id, <<>>)
           bias_user == RSub(ua[user_id], global_avg_score)
           bias_item == RSub(ia[item_id], global_avg_score)
           score_base == base_score(global_avg_score, bias_user, bias_item)
           sums == NeighbourLoop(sm[user_id], 1, item_id, bias_item,
                                 global_avg_score, ua, R(0), R(0), 0)
           numerator == sums[1]
           denominator == sums[2]
           count == sums[3]
       IN  /\ user_avg_score' = sums[4]
           /\ item_avg_score' = ia
           /\ similar_score_map' = sm
           /\ IF similar_users_not_enough(denominator, count)
              THEN IF ~Top.consider_similar_items
                   THEN stack' = SetTop([Top EXCEPT !.at = "return",
                                                    !.score_base = score_base,
                                                    !.score = NOT_FOUND])
                   ELSE IF ~attr_enabled
                   THEN stack' = SetTop([Top EXCEPT !.at = "return",
                                                    !.score_base = score_base,
                                                    !.score = clamp(score_base)])
                   ELSE stack' = SetTop([Top EXCEPT
                            !.at = "siblings",
                            !.score_base = score_base,
                            !.siblings =
                                IF weighted
                                THEN SiblingList(item_id, item_attr, item_attr_rev)
                                ELSE Unweighted(SiblingList(item_id, item_attr,
                                                            item_attr_rev))])
              ELSE stack' = SetTop([Top EXCEPT
                            !.at = "return",
                            !.score_base = score_base,
                            !.score = clamp(RAdd(score_base, RDiv(numerator, denominator)))])
    /\ UNCHANGED <<pc, matrixVars, splitVars, argVars, dataVars, global_avg_score, topkVars,
                   current_count, result, result_mat, rmse>>

\* predict_impl of src/main.cpp: the attributes are used and weighted
ImplEnter == ImplEnterWith(TRUE, TRUE)

\* One sibling whose score the user matrix holds: the first try
ImplSiblingDirect ==
    /\ pc = "predict_loop"
    /\ steps' = steps + 1
    /\ stack # <<>>
    /\ Top.at = "siblings"
    /\ Top.pos <= Len(Top.siblings)
    /\ LET attr_weight == Top.siblings[Top.pos][1]
           similar_item_id == Top.siblings[Top.pos][2]
           similar_item_score == get(user_mat, Top.user_id, similar_item_id)
       IN  /\ ~RLess(similar_item_score, R(0))
           /\ stack' = SetTop([Top EXCEPT
                    !.nominator = RAdd(@, RMul(attr_weight, similar_item_score)),
                    !.denominator = RAdd(@, attr_weight),
                    !.pos = @ + 1])
    /\ UNCHANGED <<pc, matrixVars, splitVars, argVars, dataVars, cacheVars, topkVars,
                   current_count, result, result_mat, rmse>>

\* One sibling the user has not rated: the second try, the recursive call
ImplSiblingCall ==
    /\ pc = "predict_loop"
    /\ steps' = steps + 1
    /\ stack # <<>>
    /\ Top.at = "siblings"
    /\ Top.pos <= Len(Top.siblings)
    /\ LET similar_item_id == Top.siblings[Top.pos][2]
           similar_item_score == get(user_mat, Top.user_id, similar_item_id)
       IN  /\ RLess(similar_item_score, R(0))
           /\ stack' = Append(SetTop([Top EXCEPT !.at = "wait"]),
                              Frame(Top.user_id, similar_item_id, RecursiveConsider))
    /\ UNCHANGED <<pc, matrixVars, splitVars, argVars, dataVars, cacheVars, topkVars,
                   current_count, result, result_mat, rmse>>

\* The recursive call returns: the sibling is added or, on failure, skipped
ImplSiblingReturn ==
    /\ pc = "predict_loop"
    /\ steps' = steps + 1
    /\ Len(stack) >= 2
    /\ Top.at = "return"
    /\ LET caller == stack[Len(stack) - 1]
           attr_weight == caller.siblings[caller.pos][1]
           similar_item_score == Top.score
       IN  stack' = [Pop EXCEPT ![Len(stack) - 1] =
                IF RLess(similar_item_score, R(0))
                THEN [caller EXCEPT !.at = "siblings", !.pos = @ + 1]
                ELSE [caller EXCEPT
                        !.at = "siblings",
                        !.nominator = RAdd(@, RMul(attr_weight, similar_item_score)),
                        !.denominator = RAdd(@, attr_weight),
                        !.pos = @ + 1]]
    /\ UNCHANGED <<pc, matrixVars, splitVars, argVars, dataVars, cacheVars, topkVars,
                   current_count, result, result_mat, rmse>>

\* After the sibling loops: the weighted mean or the base score, clamped
ImplSiblingsDone ==
    /\ pc = "predict_loop"
    /\ steps' = steps + 1
    /\ stack # <<>>
    /\ Top.at = "siblings"
    /\ Top.pos > Len(Top.siblings)
    /\ stack' = SetTop([Top EXCEPT
            !.at = "return",
            !.score = clamp(IF RLess(Epsilon, Top.denominator)
                            THEN RDiv(Top.nominator, Top.denominator)
                            ELSE Top.score_base)])
    /\ UNCHANGED <<pc, matrixVars, splitVars, argVars, dataVars, cacheVars, topkVars,
                   current_count, result, result_mat, rmse>>

\* The entry of the result with row and column exchanged.
ResultItemSwapped(user_id, item_id, sc) == Item(item_id, user_id, sc)

\* The entry result.emplace_back(test_user_id, item_id, score) adds.
ResultItem(user_id, item_id, sc) == Item(user_id, item_id, sc)

\* result.emplace_back(test_user_id, item_id, score)
PredictCollect ==
    /\ pc = "predict_loop"
    /\ steps' = steps + 1
    /\ Len(stack) = 1
    /\ Top.at = "return"
    /\ result' = Append(result, ResultItem(Top.user_id, Top.item_id, Top.score))
    /\ current_count' = current_count + 1
    /\ stack' = <<>>
    /\ UNCHANGED <<pc, matrixVars, splitVars, argVars, dataVars, cacheVars, topkVars,
                   result_mat, rmse>>

\* return SparseMatrix<double>(result)
PredictReturn ==
    /\ pc = "predict_loop"
    /\ steps' = steps + 1
    /\ stack = <<>>
    /\ current_count >= Len(QueryOrder)
    /\ result_mat' = SparseMatrix(result)
    /\ pc' = "predict_done"
    /\ UNCHANGED <<matrixVars, splitVars, argVars, dataVars, cacheVars, topkVars,
                   current_count, stack, result, rmse>>

\* ------------------------------------------------------------------- RMSE
\* The loop of RMSE comparing the rows of the keys only.
RECURSIVE RmseLoopRowsOnly(_, _, _, _)
RmseLoopRowsOnly(mat1_rows, mat2_rows, p, sum) ==
    IF p > Len(mat1_rows) THEN [kind |-> "value", sum |-> sum]
    ELSE IF mat1_rows[p].row # mat2_rows[p].row
    THEN [kind |-> "RMSE row or col not equal"]
    ELSE RmseLoopRowsOnly(mat1_rows, mat2_rows, p + 1,
                  RAdd(sum, square(Round(RSub(mat1_rows[p].val, mat2_rows[p].val)))))

\* The loop of RMSE from position p: the sum of squares, or the error thrown.
RECURSIVE RmseLoop(_, _, _, _)
RmseLoop(mat1_rows, mat2_rows, p, sum) ==
    IF p > Len(mat1_rows) THEN [kind |-> "value", sum |-> sum]
    ELSE IF mat1_rows[p].row # mat2_rows[p].row \/ mat1_rows[p].col # mat2_rows[p].col
    THEN [kind |-> "RMSE row or col not equal"]
    ELSE RmseLoop(mat1_rows, mat2_rows, p + 1,
                  RAdd(sum, square(Round(RSub(mat1_rows[p].val, mat2_rows[p].val)))))

\* RMSE: the error it throws or the value it returns
RMSE(mat1, mat2) ==
    LET mat1_rows == get_all(mat1)
        mat2_rows == get_all(mat2)
        count == Len(mat1_rows)
        looped == RmseLoop(mat1_rows, mat2_rows, 1, R(0))
    IN  IF Len(mat1_rows) # Len(mat2_rows) THEN [kind |-> "RMSE size not equal"]
        ELSE IF looped.kind # "value" THEN looped
        ELSE IF count = 0 THEN [kind |-> "value", val |-> NaN]
        ELSE [kind |-> "value", val |-> Sqrt(RDiv(looped.sum, R(count)))]

\* RMSE(result, test_dataset)
ComputeRMSE ==
    /\ pc \in {"rmse", "predict_done"}
    /\ rmse' = RMSE(result_mat, test_user_mat)
    /\ pc' = "rmse_done"
    /\ UNCHANGED <<matrixVars, splitVars, argVars, dataVars, cacheVars, topkVars, predictVars>>

\* ------------------------------------------------ prediction specification
\* The train matrix holds ratings of the first three users.
TrainUsers == {1, 2, 3}

\* A query names a user and an item, each possibly absent from the train
\* matrix; the value of a query entry is the 0 read_test_dataset stores.
QueryUsers == {1, Len(AllRatings) + 1}
QueryItems == AllItems \cup {Len(AllRatings[1]) + 1}
QueryMatrices(max) == Matrices(Keys(QueryUsers, QueryItems), {R(0)}, max) \ {EmptyMatrix}

\* The items with attributes: the last item of the train matrix and one item
\* that has no ratings.  No item has more than two attributes.
AttrItems == {Len(AllRatings[1]), Len(AllRatings[1]) + 1}
AttrMatrices ==
    {a \in Matrices(Keys(AttrItems, 1..MaxAttr), {1}, 2 * Cardinality(AttrItems)) :
        \A it \in row_indexes(a) : Len(get_row(a, it)) <= 2}

InitPredict ==
    /\ pc = "predict_start"
    /\ user_mat \in RatingMatrices(TrainUsers, 1, MaxTrain)
    /\ test_user_mat \in QueryMatrices(1)
    /\ item_attr \in AttrMatrices
    /\ item_attr_rev = EmptyMatrix
    /\ unordered_items = <<>> /\ mat = EmptyMatrix
    /\ lookup = NoLookup /\ transposes = 0
    /\ test_count = 0 /\ seed = 0
    /\ predict_k = 0 /\ predict_flags = 0
    /\ global_avg_score = R(0)
    /\ user_avg_score = <<>> /\ item_avg_score = <<>> /\ similar_score_map = <<>>
    /\ loop_k = 0 /\ loop_i = 0 /\ loop_j = 0 /\ loop_score = R(0)
    /\ current_count = 0 /\ stack = <<>> /\ result = <<>> /\ result_mat = EmptyMatrix
    /\ steps = 0
    /\ rmse = [kind |-> "none"]

NextPredict ==
    \/ PredictStart
    \/ PredictCall
    \/ ImplEnter
    \/ ImplSiblingDirect
    \/ ImplSiblingCall
    \/ ImplSiblingReturn
    \/ ImplSiblingsDone
    \/ PredictCollect
    \/ PredictReturn
    \/ ComputeRMSE

SpecPredict == InitPredict /\ [][NextPredict]_vars

\* Several queries against a train matrix that lacks at most one rating.
InitPredictMany ==
    /\ pc = "predict_start"
    /\ user_mat \in RatingMatrices(TrainUsers, Cardinality(Keys(TrainUsers, AllItems)) - 1,
                                   Cardinality(Keys(TrainUsers, AllItems)))
    /\ test_user_mat \in QueryMatrices(MaxQuery)
    /\ item_attr \in AttrMatrices
    /\ item_attr_rev = EmptyMatrix
    /\ unordered_items = <<>> /\ mat = EmptyMatrix
    /\ lookup = NoLookup /\ transposes = 0
    /\ test_count = 0 /\ seed = 0
    /\ predict_k = 0 /\ predict_flags = 0
    /\ global_avg_score = R(0)
    /\ user_avg_score = <<>> /\ item_avg_score = <<>> /\ similar_score_map = <<>>
    /\ loop_k = 0 /\ loop_i = 0 /\ loop_j = 0 /\ loop_score = R(0)
    /\ current_count = 0 /\ stack = <<>> /\ result = <<>> /\ result_mat = EmptyMatrix
    /\ steps = 0
    /\ rmse = [kind |-> "none"]

SpecPredictMany == InitPredictMany /\ [][NextPredict]_vars

\* Three items with attributes, two of them rated, so that the groups of an
\* item differ in size; the train matrix is large enough for a recursive
\* call to succeed, and the queries are those of a user it may hold.
SiblingItems == (AllItems \ {1}) \cup {Len(AllRatings[1]) + 1}
SiblingMatrices ==
    {a \in Matrices(Keys(SiblingItems, 1..MaxAttr), {1}, 2 * Cardinality(SiblingItems)) :
        /\ row_indexes(a) = SiblingItems
        /\ \A it \in row_indexes(a) : Len(get_row(a, it)) <= 2}

InitPredictSiblings ==
    /\ pc = "predict_start"
    /\ user_mat \in RatingMatrices(TrainUsers, MaxTrain - 1, MaxTrain)
    /\ test_user_mat \in {q \in QueryMatrices(1) : row_indexes(q) \subseteq TrainUsers}
    /\ item_attr \in SiblingMatrices
    /\ item_attr_rev = EmptyMatrix
    /\ unordered_items = <<>> /\ mat = EmptyMatrix
    /\ lookup = NoLookup /\ transposes = 0
    /\ test_count = 0 /\ seed = 0
    /\ predict_k = 0 /\ predict_flags = 0
    /\ global_avg_score = R(0)
    /\ user_avg_score = <<>> /\ item_avg_score = <<>> /\ similar_score_map = <<>>
    /\ loop_k = 0 /\ loop_i = 0 /\ loop_j = 0 /\ loop_score = R(0)
    /\ current_count = 0 /\ stack = <<>> /\ result = <<>> /\ result_mat = EmptyMatrix
    /\ steps = 0
    /\ rmse = [kind |-> "none"]

SpecPredictSiblings == InitPredictSiblings /\ [][NextPredict]_vars

\* The program is one thread that runs until main returns: a step that is
\* possible is eventually taken.

\* predict as core.hpp declares it, with k and flags.  The flags are tested
\* bit by bit.
use_attr(fl) == (fl \div FEAT_USE_ATTR) % 2 = 1

use_weight(fl) == (fl \div FEAT_USE_WEIGHT) % 2 = 1

\* predict(user_mat, test_user_mat, item_attr, k, flags) up to its loop
PredictStartFlags == PredictStartWith(predict_k)

\* predict_impl with the attributes used whatever the flags say.
ImplEnterFlagsIgnored == ImplEnterWith(TRUE, use_weight(predict_flags))

\* predict_impl under the flags
ImplEnterFlags == ImplEnterWith(use_attr(predict_flags), use_weight(predict_flags))

\* The weights without the attributes are rejected before predict is called.
FlagValues == {0, FEAT_USE_ATTR, FEAT_USE_ATTR + FEAT_USE_WEIGHT}

InitPredictFlags ==
    /\ pc = "predict_start"
    /\ user_mat \in RatingMatrices(TrainUsers, 1, 2)
                    \cup RatingMatrices(TrainUsers,
                                        Cardinality(Keys(TrainUsers, AllItems)) - 1,
                                        Cardinality(Keys(TrainUsers, AllItems)))
    /\ test_user_mat \in QueryMatrices(1)
    /\ item_attr \in AttrMatrices
    /\ item_attr_rev = EmptyMatrix
    /\ unordered_items = <<>> /\ mat = EmptyMatrix
    /\ lookup = NoLookup /\ transposes = 0
    /\ test_count = 0 /\ seed = 0
    /\ predict_k \in 1..MaxK
    /\ predict_flags \in FlagValues
    /\ global_avg_score = R(0)
    /\ user_avg_score = <<>> /\ item_avg_score = <<>> /\ similar_score_map = <<>>
    /\ loop_k = 0 /\ loop_i = 0 /\ loop_j = 0 /\ loop_score = R(0)
    /\ current_count = 0 /\ stack = <<>> /\ result = <<>> /\ result_mat = EmptyMatrix
    /\ steps = 0
    /\ rmse = [kind |-> "none"]

NextPredictFlags ==
    \/ PredictStartFlags
    \/ PredictCall
    \/ ImplEnterFlags
    \/ ImplSiblingDirect
    \/ ImplSiblingCall
    \/ ImplSiblingReturn
    \/ ImplSiblingsDone
    \/ PredictCollect
    \/ PredictReturn
    \/ ComputeRMSE

SpecPredictFlags == InitPredictFlags /\ [][NextPredictFlags]_vars

\* RMSE alone, on any two small matrices.
RmseMatrices == Matrices(Keys({1, 2}, {1, 2}), Ratings, MaxRmseLen)

InitRMSE ==
    /\ pc = "rmse"
    /\ result_mat \in RmseMatrices
    /\ test_user_mat \in RmseMatrices
    /\ user_mat = EmptyMatrix
    /\ item_attr = EmptyMatrix /\ item_attr_rev = EmptyMatrix
    /\ unordered_items = <<>> /\ mat = EmptyMatrix
    /\ lookup = NoLookup /\ transposes = 0
    /\ test_count = 0 /\ seed = 0
    /\ predict_k = 0 /\ predict_flags = 0
    /\ global_avg_score = R(0)
    /\ user_avg_score = <<>> /\ item_avg_score = <<>> /\ similar_score_map = <<>>
    /\ loop_k = 0 /\ loop_i = 0 /\ loop_j = 0 /\ loop_score = R(0)
    /\ current_count = 0 /\ stack = <<>> /\ result = <<>>
    /\ steps = 0
    /\ rmse = [kind |-> "none"]

NextRMSE == ComputeRMSE

SpecRMSE == InitRMSE /\ [][NextRMSE]_vars

InRange(x) == RLeq(R(MIN_SCORE), x) /\ RLeq(x, R(MAX_SCORE))

\* C6: predict_impl returns NOT_FOUND or a score within [0, 100]; called with
\* consider_similar_items it never returns NOT_FOUND; every value of the result
\* lies within [0, 100].
ScoresInRange ==
    /\ \A p \in 1..Len(stack) :
          stack[p].at = "return" =>
              /\ stack[p].score = NOT_FOUND \/ InRange(stack[p].score)
              /\ stack[p].consider_similar_items => InRange(stack[p].score)
    /\ \A p \in 1..Len(result) : InRange(result[p].val)
    /\ \A p \in 1..Len(get_all(result_mat)) : InRange(get_all(result_mat)[p].val)

\* C6 witness: a top-level call returns 100 for a base score above 100.
ScoresInRangeWitness ==
    /\ Len(stack) = 1
    /\ Top.at = "return"
    /\ Top.consider_similar_items
    /\ RLess(R(MAX_SCORE), Top.score_base)
    /\ Top.score = R(MAX_SCORE)

\* C7: no step of the prediction loop changes the cached averages or the
\* neighbour map.
CachesReadOnly ==
    [][pc = "predict_loop" =>
          /\ user_avg_score' = user_avg_score
          /\ item_avg_score' = item_avg_score
          /\ similar_score_map' = similar_score_map]_vars

\* C8: the matrix predict returns has the entries of the query matrix, key by
\* key in sorted order, and RMSE of the two returns a value.
ResultAligned ==
    /\ pc \in {"predict_done", "rmse_done"} =>
          /\ Len(get_all(result_mat)) = Len(get_all(test_user_mat))
          /\ \A p \in 1..Len(get_all(result_mat)) :
                /\ get_all(result_mat)[p].row = get_all(test_user_mat)[p].row
                /\ get_all(result_mat)[p].col = get_all(test_user_mat)[p].col
    /\ pc = "rmse_done" => rmse.kind = "value"

\* C8 witness: RMSE has returned for a query of two users.
ResultAlignedWitness ==
    /\ pc = "rmse_done"
    /\ Len(get_all(test_user_mat)) = 2
    /\ Cardinality(row_indexes(test_user_mat)) = 2
    /\ get_all(result_mat)[1].row # get_all(result_mat)[1].col
    /\ rmse.kind = "value"

\* C9: RMSE throws exactly when the two matrices differ in their number of
\* entries or in the (row, col) key at some position; otherwise it returns a
\* value, which is 0 for a non-empty matrix scored against itself.
RmseFailsOnMismatch ==
    pc = "rmse_done" =>
        LET a == get_all(result_mat)
            b == get_all(test_user_mat)
            mismatch ==
                \/ Len(a) # Len(b)
                \/ \E p \in 1..Len(a) : a[p].row # b[p].row \/ a[p].col # b[p].col
        IN  /\ mismatch <=> rmse.kind # "value"
            /\ Len(a) # Len(b) => rmse.kind = "RMSE size not equal"
            /\ (result_mat = test_user_mat /\ a # <<>>) =>
                    rmse = [kind |-> "value", val |-> R(0)]

\* C9 witness: RMSE has thrown for two matrices of equal size whose keys
\* differ in the second position only.
RmseFailsOnMismatchWitness ==
    /\ pc = "rmse_done"
    /\ Len(get_all(result_mat)) = 2
    /\ Len(get_all(test_user_mat)) = 2
    /\ get_all(result_mat)[1] = get_all(test_user_mat)[1]
    /\ get_all(result_mat)[2].row = get_all(test_user_mat)[2].row
    /\ get_all(result_mat)[2].col # get_all(test_user_mat)[2].col
    /\ rmse.kind = "RMSE row or col not equal"

\* At most two calls of predict_impl are active; the inner one was made with
\* consider_similar_items = false by a caller waiting for it, and a call with
\* consider_similar_items = false visits no sibling and makes no call.
DepthOne ==
    /\ Len(stack) <= 2
    /\ \A p \in 1..Len(stack) :
          /\ stack[p].consider_similar_items = (p = 1)
          /\ (stack[p].at = "wait") = (p < Len(stack))
          /\ ~stack[p].consider_similar_items => stack[p].at \in {"enter", "return"}

\* The steps a query entry for item_id can take at most: the call, the entry,
\* three for each sibling (call, entry, return), the end of the sibling loops
\* and the collection of the score.
EntrySteps(item_id) ==
    5 + 3 * Len(SiblingList(item_id, item_attr, transpose(item_attr)))

RECURSIVE PendingSteps(_, _)
PendingSteps(order, p) ==
    IF p > Len(order) THEN 0
    ELSE EntrySteps(order[p].col) + PendingSteps(order, p + 1)

\* The steps predict can take at most: its start, its query entries, its return.
StepBudget == 2 + PendingSteps(QueryOrder, 1)

\* C10: the recursion of predict_impl is one level deep (every recursive call
\* is made with consider_similar_items = false and makes no further call, the
\* caller waiting for it), and every call returns: predict takes no more steps
\* than the number its query and the attributes of the items allow.
RecursionDepthOne ==
    /\ DepthOne
    /\ steps <= StepBudget

\* C10 witness: a recursive call has returned NOT_FOUND to a waiting caller.
RecursionDepthOneWitness ==
    /\ Len(stack) = 2
    /\ Top.at = "return"
    /\ Top.score = NOT_FOUND
    /\ stack[1].at = "wait"

\* The average the map built by get_avg_score_by_row gives for a key, 0 for a
\* key it does not hold.
BuiltAverage(m, key) ==
    IF key \in row_indexes(m) THEN get_avg_score_by_row(m)[key] ELSE R(0)

\* global_avg + (user_avg[user] - global_avg) + (item_avg[item] - global_avg),
\* from the train matrix.
AdditiveBaseline(user_id, item_id) ==
    LET g == get_global_avg_score(user_mat)
    IN  RAdd(RAdd(g, RSub(BuiltAverage(user_mat, user_id), g)),
             RSub(BuiltAverage(transpose(user_mat), item_id), g))

\* The neighbours of a user: the other rows of the train matrix (K is larger
\* than their number).
Neighbours(user_id) ==
    IF user_id \in row_indexes(user_mat) THEN row_indexes(user_mat) \ {user_id} ELSE {}

\* The item has no attributes and no neighbour of the user has rated it.
NoEvidence(user_id, item_id) ==
    /\ get_row(item_attr, item_id) = <<>>
    /\ \A n \in Neighbours(user_id) : get(user_mat, n, item_id) = NOT_FOUND

\* C11 as stated: for an item without attributes that no neighbour of the user
\* has rated, the top-level call returns exactly the additive baseline.
BaselineExact ==
    (Len(stack) = 1 /\ Top.at = "return"
        /\ NoEvidence(Top.user_id, Top.item_id))
    => Top.score = AdditiveBaseline(Top.user_id, Top.item_id)

\* C11 amended: for such a query the top-level call returns the additive
\* baseline clamped into [0, 100], the average of a user or an item without
\* ratings counting as 0.
BaselineClamped ==
    (Len(stack) = 1 /\ Top.at = "return"
        /\ NoEvidence(Top.user_id, Top.item_id))
    => Top.score = clamp(AdditiveBaseline(Top.user_id, Top.item_id))

\* C11 witness: such a call has returned 0 for a baseline below 0.
BaselineClampedWitness ==
    /\ Len(stack) = 1
    /\ Top.at = "return"
    /\ NoEvidence(Top.user_id, Top.item_id)
    /\ Top.user_id \in row_indexes(user_mat)
    /\ RLess(AdditiveBaseline(Top.user_id, Top.item_id), R(MIN_SCORE))
    /\ Top.score = R(MIN_SCORE)

\* The neighbour list of a user as predict_impl reads it.
NeighbourList(user_id) ==
    IF user_id \in DOMAIN similar_score_map THEN similar_score_map[user_id] ELSE <<>>

\* The positions of the neighbours of the user that have rated the item.
Contributing(user_id, item_id) ==
    {p \in 1..Len(NeighbourList(user_id)) :
        get(user_mat, NeighbourList(user_id)[p][1], item_id) # NOT_FOUND}

\* The sum of |similarity| over the neighbours at the given positions.
RECURSIVE SumAbsSimilarity(_, _)
SumAbsSimilarity(list, positions) ==
    IF positions = {} THEN R(0)
    ELSE LET p == CHOOSE q \in positions : TRUE
         IN  RAdd(RAbs(list[p][2]), SumAbsSimilarity(list, positions \ {p}))

\* The sum of similarity * (rating - (global + bias of the neighbour + bias of
\* the item)) over the neighbours at the given positions.
RECURSIVE SumDeviation(_, _, _)
SumDeviation(list, positions, item_id) ==
    IF positions = {} THEN R(0)
    ELSE LET p == CHOOSE q \in positions : TRUE
             g == get_global_avg_score(user_mat)
             expected == RAdd(BuiltAverage(user_mat, list[p][1]),
                              RSub(BuiltAverage(transpose(user_mat), item_id), g))
         IN  RAdd(RMul(list[p][2], RSub(get(user_mat, list[p][1], item_id), expected)),
                  SumDeviation(list, positions \ {p}, item_id))

\* The neighbour evidence is insufficient: the denominator is numerically
\* zero or at most one neighbour has rated the item.
Insufficient(user_id, item_id) ==
    \/ Cardinality(Contributing(user_id, item_id)) <= 1
    \/ RLess(SumAbsSimilarity(NeighbourList(user_id), Contributing(user_id, item_id)),
             Epsilon)

\* predict has k and flags from its caller: no list is longer than k, and
\* without FEAT_USE_ATTR no call looks for siblings or calls again.
FlagsObeyed ==
    /\ \A r \in DOMAIN similar_score_map : Len(similar_score_map[r]) <= predict_k
    /\ ~use_attr(predict_flags) =>
          /\ Len(stack) <= 1
          /\ \A p \in 1..Len(stack) :
                stack[p].at \in {"enter", "return"} /\ stack[p].siblings = <<>>

NeighbourScore(user_id, item_id) ==
    clamp(RAdd(AdditiveBaseline(user_id, item_id),
               RDiv(SumDeviation(NeighbourList(user_id),
                                 Contributing(user_id, item_id), item_id),
                    SumAbsSimilarity(NeighbourList(user_id),
                                     Contributing(user_id, item_id)))))

\* C18: a call of predict_impl takes the fallback path (it looks for
\* siblings, or returns NOT_FOUND when the fallback is disallowed) exactly
\* when the denominator is numerically zero or at most one neighbour of the
\* user has rated the item; otherwise it returns clamp(base + numerator /
\* denominator) without having looked for siblings.
NeighbourEvidenceDecides ==
    \A p \in 1..Len(stack) :
        LET f == stack[p]
            insufficient == Insufficient(f.user_id, f.item_id)
        IN  /\ f.at \in {"siblings", "wait"} => insufficient /\ f.consider_similar_items
            /\ (f.at = "return" /\ ~insufficient) =>
                  /\ f.score = NeighbourScore(f.user_id, f.item_id)
                  /\ f.siblings = <<>> /\ f.pos = 1
                  /\ f.nominator = R(0) /\ f.denominator = R(0)
            /\ (f.at = "return" /\ insufficient) =>
                  f.score = IF ~f.consider_similar_items THEN NOT_FOUND
                            ELSE clamp(IF RLess(Epsilon, f.denominator)
                                       THEN RDiv(f.nominator, f.denominator)
                                       ELSE AdditiveBaseline(f.user_id, f.item_id))

\* C18 witness: a top-level call has returned the neighbours' score, which
\* is not the clamped base score, for an item that has siblings.
NeighbourEvidenceDecidesWitness ==
    /\ Len(stack) = 1
    /\ Top.at = "return"
    /\ ~Insufficient(Top.user_id, Top.item_id)
    /\ Cardinality(Contributing(Top.user_id, Top.item_id)) = 2
    /\ SiblingList(Top.item_id, item_attr, item_attr_rev) # <<>>
    /\ Top.score = NeighbourScore(Top.user_id, Top.item_id)
    /\ Top.score # clamp(AdditiveBaseline(Top.user_id, Top.item_id))

\* The attributes of an item and the items of an attribute, as item_attr
\* holds them.
AttributesOf(item_id) ==
    {get_row(item_attr, item_id)[p].col : p \in 1..Len(get_row(item_attr, item_id))}
ItemsWith(attr_id) == {it \in row_indexes(item_attr) : attr_id \in AttributesOf(it)}

\* The siblings of an item, one pair <<attribute, sibling>> per group the
\* sibling shares with the item.
SiblingPairs(item_id) ==
    {pr \in AttributesOf(item_id) \X row_indexes(item_attr) :
        pr[2] # item_id /\ pr[2] \in ItemsWith(pr[1])}

\* The score of a sibling: the rating the user has stored for it, otherwise
\* the prediction from the neighbours alone, otherwise NOT_FOUND.
SiblingScore(user_id, sibling) ==
    IF get(user_mat, user_id, sibling) # NOT_FOUND THEN get(user_mat, user_id, sibling)
    ELSE IF Insufficient(user_id, sibling) THEN NOT_FOUND
    ELSE NeighbourScore(user_id, sibling)

\* 1 / (the number of siblings of the group, the item not counted).
GroupWeight(item_id, attr_id) == <<1, Cardinality(ItemsWith(attr_id) \ {item_id})>>

\* <<sum of weight * score, sum of weight>> over the pairs whose sibling has
\* a score.
RECURSIVE WeightedSums(_, _, _)
WeightedSums(user_id, item_id, pairs) ==
    IF pairs = {} THEN <<R(0), R(0)>>
    ELSE LET pr == CHOOSE q \in pairs : TRUE
             rest == WeightedSums(user_id, item_id, pairs \ {pr})
             sc == SiblingScore(user_id, pr[2])
             weight == GroupWeight(item_id, pr[1])
         IN  IF sc = NOT_FOUND THEN rest
             ELSE <<RAdd(rest[1], RMul(weight, sc)), RAdd(rest[2], weight)>>

\* C19: a top-level call that takes the attribute fallback returns the
\* weighted mean of the scores of the item's siblings, group by group: the
\* item itself is no sibling, a group without siblings adds nothing, a
\* sibling's score is the user's stored rating or else the prediction with
\* the fallback disallowed, a sibling with neither adds nothing, and each
\* sibling of a group weighs 1 / (the number of siblings of the group).  (With
\* no sibling scored the call returns the clamped base score.)  Every
\* recursive call is for a sibling the user has not rated, with the fallback
\* disallowed.
FallbackIsWeightedMean ==
    /\ (Len(stack) = 1 /\ Top.at = "return" /\ Insufficient(Top.user_id, Top.item_id)) =>
          LET sums == WeightedSums(Top.user_id, Top.item_id, SiblingPairs(Top.item_id))
          IN  Top.score = IF RLess(R(0), sums[2]) THEN RDiv(sums[1], sums[2])
                          ELSE clamp(AdditiveBaseline(Top.user_id, Top.item_id))
    /\ \A p \in 2..Len(stack) :
          /\ ~stack[p].consider_similar_items
          /\ stack[p].user_id = stack[p - 1].user_id
          /\ \E pr \in SiblingPairs(stack[p - 1].item_id) : pr[2] = stack[p].item_id
          /\ get(user_mat, stack[p].user_id, stack[p].item_id) = NOT_FOUND

\* C19 witness: a fallback has returned the mean of two siblings of groups
\* of different sizes, one scored by the user's rating and one by the
\* recursive prediction, the two scores and the two weights different.
FallbackIsWeightedMeanWitness ==
    /\ Len(stack) = 1
    /\ Top.at = "return"
    /\ Insufficient(Top.user_id, Top.item_id)
    /\ \E a, b \in SiblingPairs(Top.item_id) :
          /\ GroupWeight(Top.item_id, a[1]) # GroupWeight(Top.item_id, b[1])
          /\ get(user_mat, Top.user_id, a[2]) # NOT_FOUND
          /\ get(user_mat, Top.user_id, b[2]) = NOT_FOUND
          /\ SiblingScore(Top.user_id, b[2]) # NOT_FOUND
          /\ SiblingScore(Top.user_id, a[2]) # SiblingScore(Top.user_id, b[2])
    /\ Top.score = RDiv(Top.nominator, Top.denominator)

\* The paths of predict_impl the specification reaches.
RecursionSucceeds == Len(stack) = 2 /\ Top.at = "return" /\ Top.score # NOT_FOUND
NeighboursSuffice ==
    Len(stack) = 1 /\ Top.at = "return" /\ Top.siblings = <<>>
        /\ Top.score # Top.score_base /\ InRange(Top.score_base)

====
